---- MODULE Spec2Model ----
(***************************************************************************)
(* A model of the YTS API client (src/api.py): the parameter validators,   *)
(* the catalog operations that build a query mapping, the request executor *)
(* (_make_request) and the envelope unwrapping (_validate_response).       *)
(*                                                                         *)
(* Python values are tagged records; Python strings are TLA+ strings, read *)
(* character by character with SubSeq where the code parses them; a dict   *)
(* is a function whose DOMAIN is its key set.                              *)
(***************************************************************************)
EXTENDS Integers, Sequences, FiniteSets, TLC

(***************************************************************************)
(* Bounds of the model.                                                    *)
(***************************************************************************)
\* small integers handed to the operations: -1 .. MaxSmallInt
MaxSmallInt == 2
\* at most this many arguments of one call differ from the signature default
MaxNonDefault == 2

(***************************************************************************)
(* Python values.                                                          *)
(***************************************************************************)
None == [t |-> "None"]
PyInt(n) == [t |-> "int", n |-> n]
PyBool(b) == [t |-> "bool", b |-> b]
PyStr(s) == [t |-> "str", s |-> s]
\* a float that is inf, -inf or nan
PyFloatSpecial(f) == [t |-> "float", f |-> f]
\* a finite float, given in halves: PyFloatHalves(5) is 2.5
PyFloatHalves(h) == [t |-> "float", h |-> h]
\* a non-empty list, a value that is neither a number nor a string
PyList == [t |-> "list", len |-> 1]

IsNone(v) == v.t = "None"
IsSpecialFloat(v) == v.t = "float" /\ "f" \in DOMAIN v

\* `is not None` in the place of truthiness
TruthyNotNone(v) == v.t # "None"

\* Python truthiness, as used by `if quality:` and `if with_rt_ratings:`
Truthy(v) ==
    CASE v.t = "None" -> FALSE
      [] v.t = "int" -> v.n # 0
      [] v.t = "bool" -> v.b
      [] v.t = "str" -> v.s # ""
      [] v.t = "float" -> IF IsSpecialFloat(v) THEN TRUE ELSE v.h # 0
      [] v.t = "list" -> v.len > 0

(***************************************************************************)
(* int(value) and str(n), computed as Python computes them.                *)
(***************************************************************************)
Digits == "0123456789"
CharAt(s, i) == SubSeq(s, i, i)
IsDigit(ch) == \E d \in 0..9 : CharAt(Digits, d + 1) = ch
DigitVal(ch) == CHOOSE d \in 0..9 : CharAt(Digits, d + 1) = ch
DigitChar(d) == CharAt(Digits, d + 1)

RECURSIVE StrNat(_)
StrNat(n) == IF n < 10 THEN DigitChar(n)
             ELSE StrNat(n \div 10) \o DigitChar(n % 10)
\* str(n) / f"{n}" of an integer
Str(n) == IF n < 0 THEN "-" \o StrNat(-n) ELSE StrNat(n)

RECURSIVE LStrip(_)
LStrip(s) == IF Len(s) > 0 /\ CharAt(s, 1) = " "
             THEN LStrip(SubSeq(s, 2, Len(s))) ELSE s
RECURSIVE RStrip(_)
RStrip(s) == IF Len(s) > 0 /\ CharAt(s, Len(s)) = " "
             THEN RStrip(SubSeq(s, 1, Len(s) - 1)) ELSE s
Strip(s) == RStrip(LStrip(s))

\* digits, with single underscores allowed between digits
IsDigitString(s) ==
    /\ Len(s) > 0
    /\ IsDigit(CharAt(s, 1))
    /\ IsDigit(CharAt(s, Len(s)))
    /\ \A i \in 1..Len(s) : IsDigit(CharAt(s, i)) \/ CharAt(s, i) = "_"
    /\ \A i \in 1..(Len(s) - 1) : ~(CharAt(s, i) = "_" /\ CharAt(s, i + 1) = "_")

RECURSIVE ParseDigits(_)
ParseDigits(s) ==
    IF Len(s) = 0 THEN 0
    ELSE LET init == SubSeq(s, 1, Len(s) - 1)
             last == CharAt(s, Len(s))
         IN  IF last = "_" THEN ParseDigits(init)
             ELSE 10 * ParseDigits(init) + DigitVal(last)

IntOk(n) == [ok |-> TRUE, n |-> n]
IntFail(e) == [ok |-> FALSE, exc |-> e]

\* int(s) of a str: surrounding blanks are dropped, one sign is allowed
IntOfStr(s) ==
    LET t == Strip(s)
        signed == Len(t) > 0 /\ CharAt(t, 1) \in {"+", "-"}
        body == IF signed THEN SubSeq(t, 2, Len(t)) ELSE t
    IN  IF IsDigitString(body)
        THEN IntOk(IF signed /\ CharAt(t, 1) = "-"
                   THEN 0 - ParseDigits(body) ELSE ParseDigits(body))
        ELSE IntFail("ValueError")

\* int(value): truncation of floats, bool as 0/1, TypeError for other types
PyIntOf(v) ==
    CASE v.t = "int" -> IntOk(v.n)
      [] v.t = "bool" -> IntOk(IF v.b THEN 1 ELSE 0)
      [] v.t = "str" -> IntOfStr(v.s)
      [] v.t = "float" ->
            IF IsSpecialFloat(v)
            THEN IF v.f = "nan" THEN IntFail("ValueError")
                 ELSE IntFail("OverflowError")
            ELSE IntOk(IF v.h >= 0 THEN v.h \div 2 ELSE 0 - ((0 - v.h) \div 2))
      [] OTHER -> IntFail("TypeError")

(***************************************************************************)
(* The validators.  A validator returns a value or raises.                 *)
(***************************************************************************)
Returns(v) == [ok |-> TRUE, val |-> v]
Raises(e, m) == [ok |-> FALSE, exc |-> e, msg |-> m]

\* validate_integer with the upper bound taken as exclusive
validate_integer_exclusive_max(value, param_name, min_value, max_value) ==
    IF IsNone(value) THEN Returns(None)
    ELSE LET c == PyIntOf(value) IN
         IF ~c.ok
         THEN IF c.exc \in {"ValueError", "TypeError"}
              THEN Raises("YTSParameterError",
                          "Parameter '" \o param_name \o "' must be an integer")
              ELSE Raises(c.exc, "")
         ELSE IF ~IsNone(min_value) /\ c.n < min_value.n
              THEN Raises("YTSParameterError",
                          "Parameter '" \o param_name \o "' must be at least "
                              \o Str(min_value.n))
         ELSE IF ~IsNone(max_value) /\ c.n >= max_value.n
              THEN Raises("YTSParameterError",
                          "Parameter '" \o param_name \o "' must be at most "
                              \o Str(max_value.n))
         ELSE Returns(PyInt(c.n))

\* validate_integer returning the value it was given instead of int_value
validate_integer_raw(value, param_name, min_value, max_value) ==
    IF IsNone(value) THEN Returns(None)
    ELSE LET c == PyIntOf(value) IN
         IF ~c.ok
         THEN IF c.exc \in {"ValueError", "TypeError"}
              THEN Raises("YTSParameterError",
                          "Parameter '" \o param_name \o "' must be an integer")
              ELSE Raises(c.exc, "")
         ELSE IF ~IsNone(min_value) /\ c.n < min_value.n
              THEN Raises("YTSParameterError",
                          "Parameter '" \o param_name \o "' must be at least "
                              \o Str(min_value.n))
         ELSE IF ~IsNone(max_value) /\ c.n > max_value.n
              THEN Raises("YTSParameterError",
                          "Parameter '" \o param_name \o "' must be at most "
                              \o Str(max_value.n))
         ELSE Returns(value)

validate_integer(value, param_name, min_value, max_value) ==
    IF IsNone(value) THEN Returns(None)
    ELSE LET c == PyIntOf(value) IN
         IF ~c.ok
         THEN IF c.exc \in {"ValueError", "TypeError"}
              THEN Raises("YTSParameterError",
                          "Parameter '" \o param_name \o "' must be an integer")
              ELSE Raises(c.exc, "")
         ELSE IF ~IsNone(min_value) /\ c.n < min_value.n
              THEN Raises("YTSParameterError",
                          "Parameter '" \o param_name \o "' must be at least "
                              \o Str(min_value.n))
         ELSE IF ~IsNone(max_value) /\ c.n > max_value.n
              THEN Raises("YTSParameterError",
                          "Parameter '" \o param_name \o "' must be at most "
                              \o Str(max_value.n))
         ELSE Returns(PyInt(c.n))

\* sep.join(seq)
RECURSIVE Join(_, _)
Join(sep, seq) == IF Len(seq) = 0 THEN ""
                  ELSE IF Len(seq) = 1 THEN seq[1]
                  ELSE seq[1] \o sep \o Join(sep, Tail(seq))

InList(s, seq) == \E i \in 1..Len(seq) : seq[i] = s

\* validate_string without the membership test
validate_string_unchecked(value, param_name, allowed_values) ==
    IF IsNone(value) THEN Returns(None)
    ELSE IF value.t # "str"
         THEN Raises("YTSParameterError",
                     "Parameter '" \o param_name \o "' must be a string")
    ELSE Returns(value)

\* allowed_values is a sequence of strings; <<>> stands for "not given"
validate_string(value, param_name, allowed_values) ==
    IF IsNone(value) THEN Returns(None)
    ELSE IF value.t # "str"
         THEN Raises("YTSParameterError",
                     "Parameter '" \o param_name \o "' must be a string")
    ELSE IF Len(allowed_values) > 0 /\ ~InList(value.s, allowed_values)
         THEN Raises("YTSParameterError",
                     "Parameter '" \o param_name \o "' must be one of: "
                         \o Join(", ", allowed_values))
    ELSE Returns(value)

\* validate_boolean coercing its value as bool(value) does
validate_boolean_coercing(value, param_name) ==
    IF IsNone(value) THEN Returns(None)
    ELSE Returns(PyBool(Truthy(value)))

validate_boolean(value, param_name) ==
    IF IsNone(value) THEN Returns(None)
    ELSE IF value.t # "bool"
         THEN Raises("YTSParameterError",
                     "Parameter '" \o param_name \o "' must be a boolean")
    ELSE Returns(value)

validate_required(value, param_name) ==
    IF IsNone(value)
    THEN Raises("YTSParameterError",
                "Parameter '" \o param_name \o "' is required")
    ELSE Returns(value)

(***************************************************************************)
(* The catalog operations up to the request: validation and the query      *)
(* mapping.  The result is either a raised error or the (endpoint, params) *)
(* pair handed to _make_request.                                           *)
(***************************************************************************)
Prepared(endpoint, params) == [ok |-> TRUE, endpoint |-> endpoint, params |-> params]

\* params[k] = v on a dict
Put(m, k, v) == [x \in (DOMAIN m) \cup {k} |-> IF x = k THEN v ELSE m[x]]
\* the assignment without its condition
PutAlways(cond, m, k, v) == Put(m, k, v)
\* `if cond: params[k] = v`
PutIf(cond, m, k, v) == IF cond THEN Put(m, k, v) ELSE m
EmptyDict == [x \in {} |-> None]

quality_options == <<"480p", "720p", "1080p", "1080p.x265", "2160p", "3D">>
sort_options == <<"title", "year", "rating", "peers", "seeds",
                  "download_count", "like_count", "date_added">>
order_options == <<"desc", "asc">>

\* the defaults of the signature of list_movies
ListMoviesDefaults ==
    [limit |-> PyInt(20), page |-> PyInt(1), quality |-> None,
     minimum_rating |-> PyInt(0), query_term |-> None, genre |-> None,
     sort_by |-> PyStr("date_added"), order_by |-> PyStr("desc"),
     with_rt_ratings |-> PyBool(FALSE)]

\* list_movies reporting a bad page before a bad limit
list_movies_page_first(a) ==
    LET limit == validate_integer(a.limit, "limit", PyInt(1), PyInt(50))
        page == validate_integer(a.page, "page", PyInt(1), None)
        minimum_rating ==
            validate_integer(a.minimum_rating, "minimum_rating", PyInt(0), PyInt(9))
        quality == validate_string(a.quality, "quality", quality_options)
        sort_by == validate_string(a.sort_by, "sort_by", sort_options)
        order_by == validate_string(a.order_by, "order_by", order_options)
        with_rt_ratings == validate_boolean(a.with_rt_ratings, "with_rt_ratings")
        p0 == [limit |-> limit.val, page |-> page.val,
               minimum_rating |-> minimum_rating.val,
               sort_by |-> sort_by.val, order_by |-> order_by.val]
        p1 == PutIf(Truthy(quality.val), p0, "quality", quality.val)
        p2 == PutIf(Truthy(a.query_term), p1, "query_term", a.query_term)
        p3 == PutIf(Truthy(a.genre), p2, "genre", a.genre)
        p4 == PutIf(Truthy(with_rt_ratings.val), p3, "with_rt_ratings", PyStr("true"))
    IN  IF ~page.ok THEN page
        ELSE IF ~limit.ok THEN limit
        ELSE IF ~minimum_rating.ok THEN minimum_rating
        ELSE IF ~quality.ok THEN quality
        ELSE IF ~sort_by.ok THEN sort_by
        ELSE IF ~order_by.ok THEN order_by
        ELSE IF ~with_rt_ratings.ok THEN with_rt_ratings
        ELSE Prepared("list_movies.json", p4)

list_movies(a) ==
    LET limit == validate_integer(a.limit, "limit", PyInt(1), PyInt(50))
        page == validate_integer(a.page, "page", PyInt(1), None)
        minimum_rating ==
            validate_integer(a.minimum_rating, "minimum_rating", PyInt(0), PyInt(9))
        quality == validate_string(a.quality, "quality", quality_options)
        sort_by == validate_string(a.sort_by, "sort_by", sort_options)
        order_by == validate_string(a.order_by, "order_by", order_options)
        with_rt_ratings == validate_boolean(a.with_rt_ratings, "with_rt_ratings")
        p0 == [limit |-> limit.val, page |-> page.val,
               minimum_rating |-> minimum_rating.val,
               sort_by |-> sort_by.val, order_by |-> order_by.val]
        p1 == PutIf(Truthy(quality.val), p0, "quality", quality.val)
        p2 == PutIf(Truthy(a.query_term), p1, "query_term", a.query_term)
        p3 == PutIf(Truthy(a.genre), p2, "genre", a.genre)
        p4 == PutIf(Truthy(with_rt_ratings.val), p3, "with_rt_ratings", PyStr("true"))
    IN  IF ~limit.ok THEN limit
        ELSE IF ~page.ok THEN page
        ELSE IF ~minimum_rating.ok THEN minimum_rating
        ELSE IF ~quality.ok THEN quality
        ELSE IF ~sort_by.ok THEN sort_by
        ELSE IF ~order_by.ok THEN order_by
        ELSE IF ~with_rt_ratings.ok THEN with_rt_ratings
        ELSE Prepared("list_movies.json", p4)

\* the defaults of search_movies; query_term has none, None stands for a
\* caller passing None
SearchMoviesDefaults == [query_term |-> None, limit |-> PyInt(20), page |-> PyInt(1)]

search_movies(a) ==
    list_movies([ListMoviesDefaults EXCEPT !.query_term = a.query_term,
                                           !.limit = a.limit, !.page = a.page])

ListLatestDefaults == [limit |-> PyInt(20), page |-> PyInt(1)]

\* list_latest_movies not passing page on
list_latest_movies_first_page(a) ==
    list_movies([ListMoviesDefaults EXCEPT !.limit = a.limit,
                                           !.sort_by = PyStr("date_added"),
                                           !.order_by = PyStr("desc")])

list_latest_movies(a) ==
    list_movies([ListMoviesDefaults EXCEPT !.limit = a.limit, !.page = a.page,
                                           !.sort_by = PyStr("date_added"),
                                           !.order_by = PyStr("desc")])

MovieDetailsDefaults ==
    [movie_id |-> None, imdb_id |-> None,
     with_images |-> PyBool(FALSE), with_cast |-> PyBool(FALSE)]

\* movie_details without the check that one of the two ids is given
movie_details_unchecked(a) ==
    LET with_images == validate_boolean(a.with_images, "with_images")
        with_cast == validate_boolean(a.with_cast, "with_cast")
        movie_id == validate_integer(a.movie_id, "movie_id", PyInt(1), None)
        p0 == EmptyDict
        p1 == PutIf(~IsNone(a.movie_id), p0, "movie_id", movie_id.val)
        p2 == PutIf(~IsNone(a.imdb_id), p1, "imdb_id", a.imdb_id)
        p3 == PutIf(Truthy(with_images.val), p2, "with_images", PyStr("true"))
        p4 == PutIf(Truthy(with_cast.val), p3, "with_cast", PyStr("true"))
    IN  IF ~with_images.ok THEN with_images
        ELSE IF ~with_cast.ok THEN with_cast
        ELSE IF ~IsNone(a.movie_id) /\ ~movie_id.ok THEN movie_id
        ELSE Prepared("movie_details.json", p4)

movie_details(a) ==
    LET with_images == validate_boolean(a.with_images, "with_images")
        with_cast == validate_boolean(a.with_cast, "with_cast")
        movie_id == validate_integer(a.movie_id, "movie_id", PyInt(1), None)
        p0 == EmptyDict
        p1 == PutIf(~IsNone(a.movie_id), p0, "movie_id", movie_id.val)
        p2 == PutIf(~IsNone(a.imdb_id), p1, "imdb_id", a.imdb_id)
        p3 == PutIf(Truthy(with_images.val), p2, "with_images", PyStr("true"))
        p4 == PutIf(Truthy(with_cast.val), p3, "with_cast", PyStr("true"))
    IN  IF IsNone(a.movie_id) /\ IsNone(a.imdb_id)
        THEN Raises("YTSParameterError", "Either 'movie_id' or 'imdb_id' is required")
        ELSE IF ~with_images.ok THEN with_images
        ELSE IF ~with_cast.ok THEN with_cast
        ELSE IF ~IsNone(a.movie_id) /\ ~movie_id.ok THEN movie_id
        ELSE Prepared("movie_details.json", p4)

\* movie_id has no default; None stands for a caller passing None
MovieIdDefaults == [movie_id |-> None]

movie_suggestions(a) ==
    LET required == validate_required(a.movie_id, "movie_id")
        movie_id == validate_integer(required.val, "movie_id", PyInt(1), None)
    IN  IF ~required.ok THEN required
        ELSE IF ~movie_id.ok THEN movie_id
        ELSE Prepared("movie_suggestions.json", [movie_id |-> movie_id.val])

movie_parental_guides(a) ==
    LET required == validate_required(a.movie_id, "movie_id")
        movie_id == validate_integer(required.val, "movie_id", PyInt(1), None)
    IN  IF ~required.ok THEN required
        ELSE IF ~movie_id.ok THEN movie_id
        ELSE Prepared("movie_parental_guides.json", [movie_id |-> movie_id.val])

CatalogOps == {"list_movies", "search_movies", "list_latest_movies",
               "movie_details", "movie_suggestions", "movie_parental_guides"}

\* the body of operation op on arguments a, up to its call of _make_request
Prepare(op, a) ==
    CASE op = "list_movies" -> list_movies(a)
      [] op = "search_movies" -> search_movies(a)
      [] op = "list_latest_movies" -> list_latest_movies(a)
      [] op = "movie_details" -> movie_details(a)
      [] op = "movie_suggestions" -> movie_suggestions(a)
      [] op = "movie_parental_guides" -> movie_parental_guides(a)

(***************************************************************************)
(* The request executor: what requests.get and raise_for_status give back, *)
(* the JSON decoding and the unwrapping of the envelope.                   *)
(***************************************************************************)
JNull == [j |-> "null"]
JStr(s) == [j |-> "str", s |-> s]
JNum(n) == [j |-> "num", n |-> n]
JArray == [j |-> "array", len |-> 0]
JObject(m) == [j |-> "object", m |-> m]

\* dict.get(key, default)
Get(m, key, default) == IF key \in DOMAIN m THEN m[key] ELSE default

\* f"{value}" of a decoded JSON value, for the values the model uses
Format(v) ==
    CASE v.j = "null" -> "None"
      [] v.j = "str" -> v.s
      [] v.j = "num" -> Str(v.n)
      [] v.j = "array" -> "[]"
      [] v.j = "object" -> "{...}"

Return(v) == [kind |-> "return", value |-> v]
Error(e, m) == [kind |-> e, msg |-> m]

\* raise_for_status raising for the 4xx status codes only
raise_for_status_client_only(status_code) == 400 <= status_code /\ status_code < 500

\* response.raise_for_status(): HTTPError for the 4xx and 5xx status codes
raise_for_status(status_code) == 400 <= status_code /\ status_code < 600

\* _validate_response failing on the status "error" only
validate_response_error_only(response) ==
    IF response.j # "object"
    THEN Error("AttributeError", "object has no attribute 'get'")
    ELSE IF Get(response.m, "status", JNull) = JStr("error")
         THEN Error("YTSResponseError",
                    "API error: " \o Format(Get(response.m, "status_message",
                                                JStr("Unknown API error"))))
    ELSE Return(Get(response.m, "data", JObject(EmptyDict)))

\* _validate_response returning the envelope in the place of its data
validate_response_whole(response) ==
    IF response.j # "object"
    THEN Error("AttributeError", "object has no attribute 'get'")
    ELSE IF Get(response.m, "status", JNull) # JStr("ok")
         THEN Error("YTSResponseError",
                    "API error: " \o Format(Get(response.m, "status_message",
                                                JStr("Unknown API error"))))
    ELSE Return(response)

validate_response(response) ==
    IF response.j # "object"
    THEN Error("AttributeError", "object has no attribute 'get'")
    ELSE IF Get(response.m, "status", JNull) # JStr("ok")
         THEN Error("YTSResponseError",
                    "API error: " \o Format(Get(response.m, "status_message",
                                                JStr("Unknown API error"))))
    ELSE Return(Get(response.m, "data", JObject(EmptyDict)))

\* _make_request after requests.get gave transport result r
make_request(r) ==
    IF r.kind = "exception"
    THEN Error("YTSRequestError", "Request failed: " \o r.exc)
    ELSE IF raise_for_status(r.status_code)
         THEN Error("YTSRequestError", "Request failed: " \o Str(r.status_code) \o " Error")
    ELSE IF ~r.body.json_ok
         THEN Error("YTSResponseError", "Failed to parse JSON response")
    ELSE validate_response(r.body.json)

(***************************************************************************)
(* The inputs: the calls a caller may make and the results the transport   *)
(* may give.                                                               *)
(***************************************************************************)
SmallInts == (0 - 1) .. MaxSmallInt

\* values handed to an integer parameter
IntLikeArgs ==
    {None, PyBool(TRUE), PyStr("abc"), PyStr(" 2 "), PyList,
     PyFloatSpecial("inf"), PyFloatSpecial("nan"), PyFloatHalves(5)}
      \cup {PyInt(n) : n \in SmallInts}
      \cup {PyStr(Str(n)) : n \in 0 .. MaxSmallInt}

BoolLikeArgs == {None, PyBool(TRUE), PyBool(FALSE), PyInt(1), PyInt(0), PyStr("true")}

ArgValues(op, p) ==
    CASE p = "limit" -> IntLikeArgs \cup {PyInt(20), PyInt(50), PyInt(51)}
      [] p = "page" -> IntLikeArgs \cup {PyInt(1000)}
      [] p = "minimum_rating" -> IntLikeArgs \cup {PyInt(9), PyInt(10)}
      [] p = "movie_id" ->
            IntLikeArgs \cup {PyInt(MaxSmallInt + 10), PyStr(Str(MaxSmallInt + 10))}
      [] p = "quality" ->
            {None, PyStr("720p"), PyStr("1080p.x265"), PyStr("3D"),
             PyStr("4K"), PyStr(""), PyInt(720)}
      [] p = "sort_by" ->
            {None, PyStr("date_added"), PyStr("title"), PyStr("rating"),
             PyStr("newest"), PyInt(1)}
      [] p = "order_by" -> {None, PyStr("desc"), PyStr("asc"), PyStr("up")}
      [] p = "query_term" -> {None, PyStr("matrix"), PyStr(""), PyInt(5)}
      [] p = "genre" -> {None, PyStr("action"), PyStr("")}
      [] p = "imdb_id" -> {None, PyStr("tt0133093")}
      [] p \in {"with_rt_ratings", "with_images", "with_cast"} -> BoolLikeArgs

Defaults(op) ==
    CASE op = "list_movies" -> ListMoviesDefaults
      [] op = "search_movies" -> SearchMoviesDefaults
      [] op = "list_latest_movies" -> ListLatestDefaults
      [] op = "movie_details" -> MovieDetailsDefaults
      [] op = "movie_suggestions" -> MovieIdDefaults
      [] op = "movie_parental_guides" -> MovieIdDefaults

\* the (parameter, value) pairs a caller may pass to op
ParamValues(op) ==
    UNION {{<<p, v>> : v \in ArgValues(op, p)} : p \in DOMAIN Defaults(op)}

\* the argument records of op that pass at most k values other than the default
RECURSIVE ArgsWith(_, _)
ArgsWith(op, k) ==
    IF k = 0 THEN {Defaults(op)}
    ELSE {[a EXCEPT ![pv[1]] = pv[2]] : a \in ArgsWith(op, k - 1), pv \in ParamValues(op)}

\* the calls of op a caller may make
CallsOf(op) == {[op |-> op, args |-> a] : a \in ArgsWith(op, MaxNonDefault)}

Calls ==
    CallsOf("list_movies") \cup CallsOf("search_movies")
      \cup CallsOf("list_latest_movies") \cup CallsOf("movie_details")
      \cup CallsOf("movie_suggestions") \cup CallsOf("movie_parental_guides")

\* data mappings a server may send
DataMappings ==
    {JObject([movie_count |-> JNum(1), limit |-> JNum(20)]), JObject(EmptyDict)}

\* the envelope with the given fields; Absent leaves the key out
Absent == [j |-> "absent"]
Envelope(status, status_message, data) ==
    LET f == [status |-> status, status_message |-> status_message, data |-> data]
    IN  JObject([k \in {x \in DOMAIN f : f[x] # Absent} |-> f[k]])

Envelopes ==
    {Envelope(s, m, d) :
        s \in {Absent, JNull, JStr("ok"), JStr("error")},
        m \in {Absent, JNull, JStr("Movie not found")},
        d \in {Absent, JObject([movie_count |-> JNum(1), limit |-> JNum(20)])}}
      \cup {Envelope(JStr("ok"), Absent, d) : d \in {JNull, JArray} \cup DataMappings}

JsonBody(v) == [json_ok |-> TRUE, json |-> v]
NotJsonBody == [json_ok |-> FALSE]

Bodies == {NotJsonBody}
            \cup {JsonBody(e) : e \in Envelopes}
            \cup {JsonBody(v) : v \in {JNull, JArray, JStr("ok"), JNum(0)}}

HttpResponse(status_code, body) ==
    [kind |-> "response", status_code |-> status_code, body |-> body]
TransportException(e) == [kind |-> "exception", exc |-> e]

\* status codes other than 200 come with a few bodies only
TransportResults ==
    {TransportException("ConnectionError"), TransportException("Timeout")}
      \cup {HttpResponse(200, b) : b \in Bodies}
      \cup {HttpResponse(sc, b) :
              sc \in {204, 300, 404, 500},
              b \in {NotJsonBody,
                     JsonBody(Envelope(JStr("ok"), Absent, JObject(EmptyDict))),
                     JsonBody(Envelope(JStr("error"), JStr("Movie not found"), Absent))}}

(***************************************************************************)
(* The magnet link builder.                                                *)
(***************************************************************************)
\* the printable ASCII characters by code; the double quote (34), the
\* backslash (92) and the backtick (96) are left out of the alphabet
AsciiFrom32 == " !"
AsciiFrom35 == "#$%&'()*+,-./0123456789:;<=>?@ABCDEFGHIJKLMNOPQRSTUVWXYZ["
AsciiFrom93 == "]^_"
AsciiFrom97 == "abcdefghijklmnopqrstuvwxyz{|}~"
AsciiTable == {<<32, AsciiFrom32>>, <<35, AsciiFrom35>>,
               <<93, AsciiFrom93>>, <<97, AsciiFrom97>>}

\* ord(ch)
Ord(ch) ==
    CHOOSE n \in 32 .. 126 :
        \E seg \in AsciiTable :
            /\ n - seg[1] + 1 \in 1 .. Len(seg[2])
            /\ CharAt(seg[2], n - seg[1] + 1) = ch

HexDigits == "0123456789ABCDEF"
\* "%XX" of a byte
PercentEncode(n) ==
    "%" \o CharAt(HexDigits, (n \div 16) + 1) \o CharAt(HexDigits, (n % 16) + 1)

\* the characters urllib.parse.quote never encodes, and its default safe="/"
IsUnreserved(ch) ==
    \/ Ord(ch) \in 48 .. 57
    \/ Ord(ch) \in 65 .. 90
    \/ Ord(ch) \in 97 .. 122
    \/ ch \in {"_", ".", "-", "~"}
    \/ ch = "/"

\* urllib.parse.quote(s)
RECURSIVE quote(_)
quote(s) ==
    IF Len(s) = 0 THEN ""
    ELSE LET ch == CharAt(s, 1) IN
         (IF IsUnreserved(ch) THEN ch ELSE PercentEncode(Ord(ch)))
            \o quote(SubSeq(s, 2, Len(s)))

DefaultTrackers ==
    <<"udp://open.demonii.com:1337/announce",
      "udp://tracker.openbittorrent.com:80",
      "udp://tracker.coppersurfer.tk:6969",
      "udp://glotorrents.pw:6969/announce",
      "udp://tracker.opentrackr.org:1337/announce",
      "udp://torrent.gresille.org:80/announce",
      "udp://p4p.arenabg.com:1337",
      "udp://tracker.leechers-paradise.org:6969">>

\* a Python list of strings
PySeq(items) == [t |-> "list", items |-> items]

\* the loop `for tracker in trackers: magnet += ...`
RECURSIVE AddTrackers(_, _)
AddTrackers(magnet, trackers) ==
    IF Len(trackers) = 0 THEN magnet
    ELSE AddTrackers(magnet \o "&tr=" \o quote(Head(trackers)), Tail(trackers))

\* what a call of construct_magnet_url leaves: the returned string, the list
\* object passed as trackers and the class attribute DEFAULT_TRACKERS
MagnetResult(ret, trackers, default_trackers) ==
    [ret |-> ret, trackers |-> trackers, DEFAULT_TRACKERS |-> default_trackers]

\* construct_magnet_url taking an empty list for an absent one
construct_magnet_url_falsy(hash_value, title, trackers, default_trackers) ==
    LET used == IF IsNone(trackers) \/ Len(trackers.items) = 0
                THEN default_trackers ELSE trackers.items
        magnet == "magnet:?xt=urn:btih:" \o hash_value \o "&dn=" \o quote(title)
    IN  MagnetResult(AddTrackers(magnet, used), trackers, default_trackers)

\* construct_magnet_url adding the given trackers to DEFAULT_TRACKERS
construct_magnet_url_extends(hash_value, title, trackers, default_trackers) ==
    LET used == IF IsNone(trackers) THEN default_trackers ELSE trackers.items
        magnet == "magnet:?xt=urn:btih:" \o hash_value \o "&dn=" \o quote(title)
    IN  MagnetResult(AddTrackers(magnet, used), trackers,
                     IF IsNone(trackers) THEN default_trackers
                     ELSE default_trackers \o trackers.items)

construct_magnet_url(hash_value, title, trackers, default_trackers) ==
    LET used == IF IsNone(trackers) THEN default_trackers ELSE trackers.items
        magnet == "magnet:?xt=urn:btih:" \o hash_value \o "&dn=" \o quote(title)
    IN  MagnetResult(AddTrackers(magnet, used), trackers, default_trackers)

\* at most this many trackers in a list passed by a caller
MaxTrackers == 2

TrackerPool == {"udp://t.example:80/announce", "http://x.y/a b?c=d"}

RECURSIVE SeqsUpTo(_, _)
\* the sequences over S of length at most n
SeqsUpTo(S, n) ==
    IF n = 0 THEN {<<>>}
    ELSE LET less == SeqsUpTo(S, n - 1) IN
         less \cup {Append(q, x) : q \in less, x \in S}

MagnetCalls ==
    {[op |-> "construct_magnet_url",
      args |-> [hash_value |-> h, title |-> ti, trackers |-> tr]] :
        h \in {"ABC123"},
        ti \in {"My Movie: Part 2", "a/b&c=~d"},
        tr \in {None} \cup {PySeq(q) : q \in SeqsUpTo(TrackerPool, MaxTrackers)}}

(***************************************************************************)
(* The torrent file fetcher: its inputs.                                   *)
(***************************************************************************)
\* at most this many chunks come out of iter_content in one download
MaxChunks == 2

FileAbsent == [exists |-> FALSE]
File(data) == [exists |-> TRUE, data |-> data]
\* the destination before a download: not there, or there with old content
FilesBefore == {FileAbsent, File(<<"old">>)}

DownloadCalls ==
    {[op |-> "download_torrent_file",
      args |-> [url |-> "https://yts.mx/torrent/download/ABC123",
                file_path |-> "movie.torrent"]]}

\* what requests.get(url, stream=True) gives: the body is read later
StreamResponse(status_code) == [kind |-> "response", status_code |-> status_code]
DownloadResults ==
    {TransportException("ConnectionError"), TransportException("Timeout")}
      \cup {StreamResponse(sc) : sc \in {200, 204, 300, 404, 500}}

\* a chunk yielded by iter_content; the empty one is a keep-alive chunk
Chunks == {"", "data"}

(***************************************************************************)
(* The state machine: callers of one client.                               *)
(***************************************************************************)
VARIABLES
    client,     \* the configuration set by __init__: base_url and timeout
    DEFAULT_TRACKERS, \* the class attribute YTSClient.DEFAULT_TRACKERS
    pc,         \* per caller: "off", "idle", "waiting" (GET in flight),
                \* "connecting", "streaming" (download), "done"
    call,       \* per caller: the operation and arguments of the current call
    sent,       \* per caller: the GETs issued during the current call
    reply,      \* per caller: what the transport gave for the GET, once it ended
    outcome,    \* per caller: what the current call returned or raised
    dest,       \* per caller: the destination file of the current download
    trackers_arg, \* per caller: the list object passed as trackers, after the call
    prev        \* per caller: the call completed before the current one

\* the state of the client and of its callers
clientVars == <<client, DEFAULT_TRACKERS, pc, call, sent, reply, outcome, dest,
                trackers_arg, prev>>

\* the state of the presentation layer: the Textual application of tui.py
\* and the interactive menu of cli.py
VARIABLES
    app,          \* the Textual application: "starting", "running", "quit", "crashed"
    screen_stack, \* the screens pushed, the active one last
    workers,      \* per worker slot: the @work(thread=True) method running in it
    handoff,      \* the callables handed to the UI thread by call_from_thread
    movies,       \* YTSApp.movies
    content,      \* the children of #content_container of the main screen
    lookups,      \* the last query_one("#latest_movies_label") and what it found
    off_thread,   \* UI and application state touched directly by a worker thread
    cli_at,       \* where the interactive menu of cli.py stands
    cli_locals,   \* the local variables of the flow the menu is in
    console,      \* the last line the menu printed
    exit_status   \* the exit status of the menu program, once it ended

uiVars == <<app, screen_stack, workers, handoff, movies, content, lookups,
            off_thread>>
cliVars == <<cli_at, cli_locals, console, exit_status>>

vars == <<clientVars, uiVars, cliVars>>

\* at most this many worker threads run at a time
MaxWorkers == 2
WorkerIds == 1 .. MaxWorkers
NoWorker == [fn |-> "none"]

\* a widget
Label(text, id) == [widget |-> "Label", id |-> id, text |-> text]
Grid(id, cards) == [widget |-> "Grid", id |-> id, text |-> "", cards |-> cards]
NoId == ""

MainScreen == [name |-> "main"]
NoLookup == [by |-> "none"]
NoResult == [kind |-> "none"]
\* the locals of search_flow and browse_flow: the flow, the query typed, the
\* movies listed, the movie selected and what the client call gave
Locals(flow, query, ms, movie, result) ==
    [flow |-> flow, query |-> query, movies |-> ms, movie |-> movie,
     result |-> result]
NoLocals == Locals("none", "", <<>>, 0, NoResult)
NotExited == -1

\* YTSApp() composed, before on_mount; the menu program at the first prompt
\* of main_menu
UiInit ==
    /\ app = "starting"
    /\ screen_stack = <<MainScreen>>
    /\ workers = [w \in WorkerIds |-> NoWorker]
    /\ handoff = <<>>
    /\ movies = <<>>
    /\ content = <<Label("Loading latest movies...", "latest_movies_label")>>
    /\ lookups = NoLookup
    /\ off_thread = {}
    /\ cli_at = "menu"
    /\ cli_locals = NoLocals
    /\ console = ""
    /\ exit_status = NotExited

Callers == {"c1", "c2"}

NoCall == [op |-> "none"]
NoOutcome == [kind |-> "none"]
NoReply == [kind |-> "none"]
\* the destination of a download: the file before the call and now, the
\* number of chunks iter_content yielded, the non-empty ones among them, and
\* the step that failed, if one did
Dest(before, now, got, body, fault) ==
    [before |-> before, now |-> now, got |-> got, body |-> body, fault |-> fault]
NoDest == Dest(FileAbsent, FileAbsent, 0, <<>>, "none")
NoPrev == [call |-> NoCall]

\* YTSClient() with the defaults of __init__
DefaultClient == [base_url |-> "https://yts.mx/api/v2/", timeout |-> 10]

\* the state after YTSClient() with the callers in Active ready to call
InitWith(Active) ==
    /\ client = DefaultClient
    /\ DEFAULT_TRACKERS = DefaultTrackers
    /\ pc = [c \in Callers |-> IF c \in Active THEN "idle" ELSE "off"]
    /\ call = [c \in Callers |-> NoCall]
    /\ sent = [c \in Callers |-> <<>>]
    /\ reply = [c \in Callers |-> NoReply]
    /\ outcome = [c \in Callers |-> NoOutcome]
    /\ dest = [c \in Callers |-> NoDest]
    /\ trackers_arg = [c \in Callers |-> None]
    /\ prev = [c \in Callers |-> NoPrev]
    /\ UiInit

Init == InitWith({"c1"})

\* requests.get(url, params=params, timeout=self.timeout) with the params
\* of the GETs of other callers still in flight mixed in
GetRequest_SharedParams(endpoint, params) ==
    LET inflight == {x \in Callers : pc[x] = "waiting"}
        keys == (DOMAIN params) \cup UNION {DOMAIN sent[x][1].params : x \in inflight}
        other(k) == CHOOSE x \in inflight : k \in DOMAIN sent[x][1].params
    IN  [url |-> client.base_url \o endpoint,
         params |-> [k \in keys |-> IF k \in DOMAIN params THEN params[k]
                                    ELSE sent[other(k)][1].params[k]],
         timeout |-> client.timeout]

\* requests.get(url, params=params, timeout=self.timeout)
GetRequest(endpoint, params) ==
    [url |-> client.base_url \o endpoint, params |-> params,
     timeout |-> client.timeout]

\* Issue with the GET issued before the operation raises
Issue_GetBeforeRaise(c, k, r) ==
    /\ call' = [call EXCEPT ![c] = k]
    /\ client' = client
    /\ sent' = [sent EXCEPT ![c] =
                   Append(@, GetRequest(IF r.ok THEN r.endpoint ELSE k.op \o ".json",
                                        IF r.ok THEN r.params ELSE EmptyDict))]
    /\ IF r.ok
       THEN /\ pc' = [pc EXCEPT ![c] = "waiting"]
            /\ outcome' = outcome
       ELSE /\ pc' = [pc EXCEPT ![c] = "done"]
            /\ outcome' = [outcome EXCEPT ![c] = Error(r.exc, r.msg)]

\* Issue keeping the URL it built as the client's base_url
Issue_KeepsUrl(c, k, r) ==
    /\ call' = [call EXCEPT ![c] = k]
    /\ IF r.ok
       THEN /\ sent' = [sent EXCEPT ![c] = Append(@, GetRequest(r.endpoint, r.params))]
            /\ client' = [client EXCEPT !.base_url = @ \o r.endpoint]
            /\ pc' = [pc EXCEPT ![c] = "waiting"]
            /\ outcome' = outcome
       ELSE /\ sent' = sent
            /\ client' = client
            /\ pc' = [pc EXCEPT ![c] = "done"]
            /\ outcome' = [outcome EXCEPT ![c] = Error(r.exc, r.msg)]

\* the rest of a call k of caller c once the operation body ran up to its
\* call of _make_request with result r: a raise, or the GET is issued
Issue(c, k, r) ==
    /\ call' = [call EXCEPT ![c] = k]
    /\ client' = client
    /\ IF r.ok
       THEN /\ sent' = [sent EXCEPT ![c] = Append(@, GetRequest(r.endpoint, r.params))]
            /\ pc' = [pc EXCEPT ![c] = "waiting"]
            /\ outcome' = outcome
       ELSE /\ sent' = sent
            /\ pc' = [pc EXCEPT ![c] = "done"]
            /\ outcome' = [outcome EXCEPT ![c] = Error(r.exc, r.msg)]

\* caller c calls a catalog operation, one of the calls in K: the operation
\* validates, builds the query mapping and either raises or issues its GET
InvokeFrom(c, K) ==
    /\ pc[c] = "idle"
    /\ \E k \in K : Issue(c, k, Prepare(k.op, k.args))
    /\ UNCHANGED <<DEFAULT_TRACKERS, reply, dest, trackers_arg, prev, uiVars, cliVars>>

Invoke(c) == InvokeFrom(c, Calls)

\* Handle issuing the GET once more after a failed request
Handle_Retries(c, r) ==
    /\ reply' = [reply EXCEPT ![c] = r]
    /\ client' = client
    /\ IF make_request(r).kind = "YTSRequestError" /\ Len(sent[c]) = 1
       THEN /\ sent' = [sent EXCEPT ![c] = Append(@, @[1])]
            /\ pc' = pc
            /\ outcome' = outcome
       ELSE /\ sent' = sent
            /\ pc' = [pc EXCEPT ![c] = "done"]
            /\ outcome' = [outcome EXCEPT ![c] = make_request(r)]

\* the GET of caller c ended with transport result r: the rest of
\* _make_request
Handle(c, r) ==
    /\ reply' = [reply EXCEPT ![c] = r]
    /\ client' = client
    /\ sent' = sent
    /\ pc' = [pc EXCEPT ![c] = "done"]
    /\ outcome' = [outcome EXCEPT ![c] = make_request(r)]

\* the GET of caller c ends with a transport result of R
ReceiveFrom(c, R) ==
    /\ pc[c] = "waiting"
    /\ \E r \in R : Handle(c, r)
    /\ UNCHANGED <<DEFAULT_TRACKERS, call, dest, trackers_arg, prev, uiVars, cliVars>>

Receive(c) == ReceiveFrom(c, TransportResults)

\* caller c calls construct_magnet_url
ConstructMagnet(c) ==
    /\ pc[c] = "idle"
    /\ \E k \in MagnetCalls :
          LET r == construct_magnet_url(k.args.hash_value, k.args.title,
                                        k.args.trackers, DEFAULT_TRACKERS)
          IN  /\ call' = [call EXCEPT ![c] = k]
              /\ outcome' = [outcome EXCEPT ![c] = Return(PyStr(r.ret))]
              /\ trackers_arg' = [trackers_arg EXCEPT ![c] = r.trackers]
              /\ DEFAULT_TRACKERS' = r.DEFAULT_TRACKERS
    /\ pc' = [pc EXCEPT ![c] = "done"]
    /\ UNCHANGED <<client, sent, reply, dest, prev, uiVars, cliVars>>

DownloadFailed == "Failed to download torrent file: "
\* the save-phase message worded as the download-phase one
SaveFailed_AsDownload == "Failed to download torrent file: "
SaveFailed == "Failed to save torrent file: "

\* caller c calls download_torrent_file: requests.get(url, stream=True, ...)
\* is issued; the destination is in one of the states of FilesBefore
StartDownload(c) ==
    /\ pc[c] = "idle"
    /\ \E k \in DownloadCalls, f \in FilesBefore :
          /\ call' = [call EXCEPT ![c] = k]
          /\ sent' = [sent EXCEPT ![c] =
                         Append(@, [url |-> k.args.url, stream |-> TRUE,
                                    timeout |-> client.timeout])]
          /\ dest' = [dest EXCEPT ![c] = Dest(f, f, 0, <<>>, "none")]
    /\ pc' = [pc EXCEPT ![c] = "connecting"]
    /\ UNCHANGED <<client, DEFAULT_TRACKERS, reply, outcome, trackers_arg, prev, uiVars, cliVars>>

\* requests.get returns or raises; raise_for_status; open(file_path, 'wb')
\* creates or truncates the destination, or fails
Connect(c) ==
    /\ pc[c] = "connecting"
    /\ \E r \in DownloadResults, open_ok \in BOOLEAN :
          /\ reply' = [reply EXCEPT ![c] = r]
          /\ IF r.kind = "exception" \/ raise_for_status(r.status_code)
             THEN /\ open_ok
                  /\ outcome' = [outcome EXCEPT ![c] =
                                    Error("YTSRequestError", DownloadFailed)]
                  /\ pc' = [pc EXCEPT ![c] = "done"]
                  /\ dest' = [dest EXCEPT ![c].fault = "request"]
             ELSE IF ~open_ok
             THEN /\ outcome' = [outcome EXCEPT ![c] =
                                    Error("YTSRequestError", SaveFailed)]
                  /\ pc' = [pc EXCEPT ![c] = "done"]
                  /\ dest' = [dest EXCEPT ![c].fault = "open"]
             ELSE /\ outcome' = outcome
                  /\ pc' = [pc EXCEPT ![c] = "streaming"]
                  /\ dest' = [dest EXCEPT ![c].now = File(<<>>)]
    /\ UNCHANGED <<client, DEFAULT_TRACKERS, call, sent, trackers_arg, prev, uiVars, cliVars>>

\* one turn of `for chunk in response.iter_content(...)`: a chunk is
\* written or skipped, the write fails, the network fails, or the body ends
Stream(c) ==
    /\ pc[c] = "streaming"
    /\ \/ \E chunk \in Chunks, write_ok \in BOOLEAN :
             /\ dest[c].got < MaxChunks
             /\ IF chunk = ""
                THEN /\ write_ok
                     /\ dest' = [dest EXCEPT ![c].got = @ + 1]
                     /\ UNCHANGED <<pc, outcome>>
                ELSE IF write_ok
                THEN /\ dest' = [dest EXCEPT ![c].got = @ + 1,
                                             ![c].body = Append(@, chunk),
                                             ![c].now = File(Append(@.data, chunk))]
                     /\ UNCHANGED <<pc, outcome>>
                ELSE /\ dest' = [dest EXCEPT ![c].got = @ + 1,
                                             ![c].body = Append(@, chunk),
                                             ![c].fault = "write"]
                     /\ outcome' = [outcome EXCEPT ![c] =
                                       Error("YTSRequestError", SaveFailed)]
                     /\ pc' = [pc EXCEPT ![c] = "done"]
       \/ /\ dest[c].got < MaxChunks
          /\ outcome' = [outcome EXCEPT ![c] =
                            Error("YTSRequestError", DownloadFailed)]
          /\ pc' = [pc EXCEPT ![c] = "done"]
          /\ dest' = [dest EXCEPT ![c].fault = "network"]
       \/ /\ outcome' = [outcome EXCEPT ![c] = Return(PyBool(TRUE))]
          /\ pc' = [pc EXCEPT ![c] = "done"]
          /\ dest' = dest
    /\ UNCHANGED <<client, DEFAULT_TRACKERS, call, sent, reply, trackers_arg, prev, uiVars, cliVars>>

\* caller c is ready for its next call
Reset(c) ==
    /\ pc[c] = "done"
    /\ pc' = [pc EXCEPT ![c] = "idle"]
    /\ call' = [call EXCEPT ![c] = NoCall]
    /\ sent' = [sent EXCEPT ![c] = <<>>]
    /\ reply' = [reply EXCEPT ![c] = NoReply]
    /\ outcome' = [outcome EXCEPT ![c] = NoOutcome]
    /\ dest' = [dest EXCEPT ![c] = NoDest]
    /\ trackers_arg' = [trackers_arg EXCEPT ![c] = None]
    /\ UNCHANGED <<client, DEFAULT_TRACKERS, uiVars, cliVars>>

\* the caller takes the result; the next call starts afresh
Finish(c) ==
    /\ Reset(c)
    /\ UNCHANGED prev

\* the caller takes the result and remembers the call for the next one
FinishRecord(c) ==
    /\ Reset(c)
    /\ prev' = [prev EXCEPT ![c] = [call |-> call[c], sent |-> sent[c],
                                    reply |-> reply[c], outcome |-> outcome[c]]]

Next ==
    \/ \E c \in Callers : Invoke(c)
    \/ \E c \in Callers : Receive(c)
    \/ \E c \in Callers : ConstructMagnet(c)
    \/ \E c \in Callers : StartDownload(c)
    \/ \E c \in Callers : Connect(c)
    \/ \E c \in Callers : Stream(c)
    \/ \E c \in Callers : Finish(c)

Spec == Init /\ [][Next]_vars

(***************************************************************************)
(* Successive calls of one caller and concurrent calls of two callers, on  *)
(* a few calls and transport results.                                      *)
(***************************************************************************)
FewCalls ==
    {[op |-> "list_latest_movies", args |-> ListLatestDefaults],
     [op |-> "list_latest_movies",
      args |-> [ListLatestDefaults EXCEPT !.limit = PyInt(2)]],
     [op |-> "list_movies",
      args |-> [ListMoviesDefaults EXCEPT !.quality = PyStr("720p"),
                                          !.with_rt_ratings = PyBool(TRUE)]],
     [op |-> "list_movies",
      args |-> [ListMoviesDefaults EXCEPT !.limit = PyInt(0)]],
     [op |-> "search_movies",
      args |-> [SearchMoviesDefaults EXCEPT !.query_term = PyStr("matrix")]],
     [op |-> "movie_details",
      args |-> [MovieDetailsDefaults EXCEPT !.movie_id = PyStr("2")]],
     [op |-> "movie_details", args |-> MovieDetailsDefaults],
     [op |-> "movie_suggestions", args |-> [movie_id |-> PyInt(1)]]}

FewResults ==
    {TransportException("Timeout"),
     HttpResponse(404, NotJsonBody),
     HttpResponse(200, NotJsonBody),
     HttpResponse(200, JsonBody(JArray)),
     HttpResponse(200, JsonBody(Envelope(JStr("error"), JStr("Movie not found"), Absent))),
     HttpResponse(200, JsonBody(Envelope(JStr("ok"), Absent,
                    JObject([movie_count |-> JNum(1), limit |-> JNum(20)]))))}

NextRepeat ==
    \/ \E c \in Callers : InvokeFrom(c, FewCalls)
    \/ \E c \in Callers : ReceiveFrom(c, FewResults)
    \/ \E c \in Callers : FinishRecord(c)

\* one caller making call after call
SpecRepeat == Init /\ [][NextRepeat]_vars

InitConcurrent == InitWith(Callers)

NextConcurrent ==
    \/ \E c \in Callers : InvokeFrom(c, FewCalls)
    \/ \E c \in Callers : ReceiveFrom(c, FewResults)
    \/ \E c \in Callers : Finish(c)

\* two callers sharing the client
SpecConcurrent == InitConcurrent /\ [][NextConcurrent]_vars

(***************************************************************************)
(* The Textual application of tui.py: the main screen and its loads.       *)
(***************************************************************************)
\* at most this many movies in a response
MaxMovies == 2

\* the "movies" lists of a response, a movie given by its id
MovieLists == {[i \in 1 .. n |-> i] : n \in 0 .. MaxMovies}

\* what a call of a catalog operation gives the presentation layer: the
\* data mapping, a YTSAPIError, or an exception that is no YTSAPIError
CallReturned(ms) == [kind |-> "return", movies |-> ms]
CallRaised(e, m) == [kind |-> e, msg |-> m]
\* the subclasses of YTSAPIError
ApiErrors == {"YTSRequestError", "YTSResponseError", "YTSParameterError"}
CallResults ==
    {CallReturned(ms) : ms \in MovieLists}
      \cup {CallRaised("YTSRequestError", "Request failed: timeout"),
            CallRaised("YTSResponseError", "API error: Movie not found"),
            CallRaised("AttributeError", "'list' object has no attribute 'get'")}

Top(stack) == stack[Len(stack)]
Pop(stack) == SubSeq(stack, 1, Len(stack) - 1)

\* the worker slots no thread runs in
FreeSlots == {w \in WorkerIds : workers[w] = NoWorker}
FreeSlot == CHOOSE w \in FreeSlots : \A x \in FreeSlots : w <= x

\* the widgets of a container that query_one("#" + id) matches
Matches(children, id) == {i \in DOMAIN children : children[i].id = id}

\* widget.update(text) on the widget object target
Update(children, target, text) ==
    [i \in DOMAIN children |->
        IF children[i] = target THEN [children[i] EXCEPT !.text = text]
        ELSE children[i]]

\* load_latest_movies() called on the UI thread: @work(thread=True) starts
\* a thread that runs its body
StartLatest ==
    workers' = [workers EXCEPT ![FreeSlot] =
                   [fn |-> "load_latest_movies", at |-> "call"]]

\* YTSApp.on_mount
Mount ==
    /\ app = "starting"
    /\ app' = "running"
    /\ StartLatest
    /\ UNCHANGED <<screen_stack, handoff, movies, content, lookups, off_thread>>
    /\ UNCHANGED <<clientVars, cliVars>>

\* YTSApp.action_refresh, the r key on the main screen
Refresh ==
    /\ app = "running"
    /\ Top(screen_stack) = MainScreen
    /\ FreeSlots # {}
    /\ LET found == Matches(content, "latest_movies_label") IN
       /\ lookups' = [by |-> "action_refresh", matches |-> Cardinality(found)]
       /\ IF found = {}
          THEN /\ app' = "crashed"
               /\ UNCHANGED <<content, workers>>
          ELSE /\ content' = Update(content,
                                    content[CHOOSE i \in found : \A j \in found : i <= j],
                                    "Loading latest movies...")
               /\ StartLatest
               /\ app' = app
    /\ UNCHANGED <<screen_stack, handoff, movies, off_thread>>
    /\ UNCHANGED <<clientVars, cliVars>>

\* worker thread w in load_latest_movies: client.list_latest_movies(limit=24)
\* returns or raises
LatestCall(w) ==
    /\ app = "running"
    /\ workers[w].fn = "load_latest_movies" /\ workers[w].at = "call"
    /\ \E r \in CallResults :
          workers' = [workers EXCEPT ![w] =
              [fn |-> "load_latest_movies",
               at |-> IF r.kind = "return" THEN "store" ELSE "except",
               result |-> r]]
    /\ UNCHANGED <<app, screen_stack, handoff, movies, content, lookups, off_thread>>
    /\ UNCHANGED <<clientVars, cliVars>>

\* worker thread w: self.movies = response.get("movies", []) and
\* call_from_thread(self.update_movie_grid), which blocks until it ran
LatestStore(w) ==
    /\ app = "running"
    /\ workers[w].fn = "load_latest_movies" /\ workers[w].at = "store"
    /\ movies' = workers[w].result.movies
    /\ off_thread' = off_thread \cup {"write YTSApp.movies"}
    /\ handoff' = Append(handoff, [fn |-> "update_movie_grid", by |-> w])
    /\ workers' = [workers EXCEPT ![w].at = "blocked"]
    /\ UNCHANGED <<app, screen_stack, content, lookups>>
    /\ UNCHANGED <<clientVars, cliVars>>

\* worker thread w in an except clause: self.query_one("#latest_movies_label")
\* is evaluated on the worker thread, then its update is handed off; a
\* NoMatches raised there ends the worker, and with it the application
LatestExcept(w) ==
    /\ app = "running"
    /\ workers[w].fn = "load_latest_movies" /\ workers[w].at = "except"
    /\ LET found == Matches(content, "latest_movies_label")
           e == workers[w].result
           text == IF e.kind \in ApiErrors
                   THEN "Error loading movies: " \o e.msg
                   ELSE "Unexpected error: " \o e.msg
       IN
       /\ lookups' = [by |-> "load_latest_movies", matches |-> Cardinality(found)]
       /\ off_thread' = off_thread \cup {"query_one #latest_movies_label"}
       /\ IF found = {}
          THEN /\ app' = "crashed"
               /\ UNCHANGED <<handoff, workers>>
          ELSE /\ handoff' = Append(handoff,
                     [fn |-> "update", by |-> w, text |-> text,
                      target |-> content[CHOOSE i \in found : \A j \in found : i <= j]])
               /\ workers' = [workers EXCEPT ![w].at = "blocked"]
               /\ app' = app
    /\ UNCHANGED <<screen_stack, movies, content>>
    /\ UNCHANGED <<clientVars, cliVars>>

\* YTSApp.update_movie_grid
update_movie_grid(ms) ==
    IF Len(ms) = 0
    THEN <<Label("No movies found", NoId)>>
    ELSE <<Label("Latest Movies", "latest_movies_label"), Grid("movie_grid", ms)>>

\* the UI thread runs the next callable handed to it; the worker that
\* handed it off returns
RunHandoff ==
    /\ app = "running"
    /\ Len(handoff) > 0
    /\ LET h == Head(handoff) IN
       /\ workers' = [workers EXCEPT ![h.by] = NoWorker]
       /\ CASE h.fn = "update_movie_grid" ->
                  /\ content' = update_movie_grid(movies)
                  /\ UNCHANGED screen_stack
            [] h.fn = "update" ->
                  /\ content' = Update(content, h.target, h.text)
                  /\ UNCHANGED screen_stack
            [] h.fn = "push_screen" ->
                  /\ screen_stack' = Append(screen_stack, h.screen)
                  /\ UNCHANGED content
    /\ handoff' = Tail(handoff)
    /\ UNCHANGED <<app, movies, lookups, off_thread>>
    /\ UNCHANGED <<clientVars, cliVars>>

\* the q key
Quit ==
    /\ app = "running"
    /\ app' = "quit"
    /\ UNCHANGED <<screen_stack, workers, handoff, movies, content, lookups, off_thread>>
    /\ UNCHANGED <<clientVars, cliVars>>

InitUi == InitWith({})

NextMain ==
    \/ Mount
    \/ Refresh
    \/ \E w \in WorkerIds : LatestCall(w)
    \/ \E w \in WorkerIds : LatestStore(w)
    \/ \E w \in WorkerIds : LatestExcept(w)
    \/ RunHandoff
    \/ Quit

\* the main screen of the application, its loads and refreshes
SpecMain == InitUi /\ [][NextMain]_vars

(***************************************************************************)
(* The Textual application of tui.py: searches and their screens.          *)
(***************************************************************************)
LoadingScreen(next_screen, query) ==
    [name |-> "loading", next_screen |-> next_screen, query |-> query]
ResultsScreen(ms, title) == [name |-> "results", movies |-> ms, title |-> title]
MovieDetailsScreen(movie) == [name |-> "details", movie |-> movie]
DownloadScreen(movie) == [name |-> "download", movie |-> movie]
ErrorScreen(message) == [name |-> "error", message |-> message]

\* the screens that bind escape to app.pop_screen
WithBack == {"results", "details", "download", "error"}

\* what the user types in the search bar
Queries == {"matrix", "zzz"}

\* push_screen(LoadingScreen(...)): the screen is mounted and its on_mount
\* starts load_data in a worker thread
PushLoading(next_screen, query) ==
    /\ screen_stack' = Append(screen_stack, LoadingScreen(next_screen, query))
    /\ workers' = [workers EXCEPT ![FreeSlot] =
                      [fn |-> "load_data", at |-> "call",
                       next_screen |-> next_screen, query |-> query]]

\* SearchBar.search with a query typed in
Search ==
    /\ app = "running"
    /\ Top(screen_stack) = MainScreen
    /\ FreeSlots # {}
    /\ \E q \in Queries : PushLoading("results", q)
    /\ UNCHANGED <<app, handoff, movies, content, lookups, off_thread>>
    /\ UNCHANGED <<clientVars, cliVars>>

\* ResultsScreen.on_data_table_row_selected
SelectRow ==
    /\ app = "running"
    /\ Top(screen_stack).name = "results"
    /\ FreeSlots # {}
    /\ \E i \in DOMAIN Top(screen_stack).movies :
          PushLoading("details", Str(Top(screen_stack).movies[i]))
    /\ UNCHANGED <<app, handoff, movies, content, lookups, off_thread>>
    /\ UNCHANGED <<clientVars, cliVars>>

\* the screen load_data hands to push_screen when its client call gave r
NextScreen(next_screen, query, r) ==
    IF r.kind = "return"
    THEN IF next_screen = "results"
         THEN ResultsScreen(r.movies, "Search Results for '" \o query \o "'")
         ELSE MovieDetailsScreen(query)
    ELSE IF r.kind \in ApiErrors
    THEN ErrorScreen("API Error: " \o r.msg)
    ELSE ErrorScreen("Unexpected Error: " \o r.msg)

\* worker thread w in LoadingScreen.load_data: the client call returns or
\* raises, and the next screen is handed to the UI thread
LoadData(w) ==
    /\ app = "running"
    /\ workers[w].fn = "load_data" /\ workers[w].at = "call"
    /\ \E r \in CallResults :
          handoff' = Append(handoff,
              [fn |-> "push_screen", by |-> w,
               screen |-> NextScreen(workers[w].next_screen, workers[w].query, r)])
    /\ workers' = [workers EXCEPT ![w].at = "blocked"]
    /\ UNCHANGED <<app, screen_stack, movies, content, lookups, off_thread>>
    /\ UNCHANGED <<clientVars, cliVars>>

\* MovieDetailsScreen.action_show_download_options, the d key
ShowDownload ==
    /\ app = "running"
    /\ Top(screen_stack).name = "details"
    /\ screen_stack' = Append(screen_stack, DownloadScreen(Top(screen_stack).movie))
    /\ UNCHANGED <<app, workers, handoff, movies, content, lookups, off_thread>>
    /\ UNCHANGED <<clientVars, cliVars>>

\* escape, or the Back button of ErrorScreen: app.pop_screen
Back ==
    /\ app = "running"
    /\ Top(screen_stack).name \in WithBack
    /\ screen_stack' = Pop(screen_stack)
    /\ UNCHANGED <<app, workers, handoff, movies, content, lookups, off_thread>>
    /\ UNCHANGED <<clientVars, cliVars>>

NextScreens ==
    \/ Mount
    \/ Search
    \/ SelectRow
    \/ \E w \in WorkerIds : LoadData(w)
    \/ RunHandoff
    \/ ShowDownload
    \/ Back
    \/ Quit

\* the searches of the application and the screens they push, while the
\* load of the main screen is in flight
SpecScreens == InitUi /\ [][NextScreens]_vars

(***************************************************************************)
(* The interactive menu of cli.py.                                         *)
(***************************************************************************)
\* the torrents of a movie: the first movie has one, the others none
TorrentsOf(movie) == IF movie = 1 THEN <<"720p">> ELSE <<>>

\* sys.exit(status) after the line printed before it
Exit(status, line) ==
    /\ cli_at' = "exited"
    /\ exit_status' = status
    /\ console' = line
    /\ cli_locals' = cli_locals

\* the program goes on at prompt `at` after printing `line`
GoOn(at, line, locals) ==
    /\ cli_at' = at
    /\ console' = line
    /\ cli_locals' = locals
    /\ exit_status' = exit_status

\* where a flow goes on when it gives up the current movie: `continue` in
\* the loop of search_flow, `continue` in the loop of browse_flow
NextRound(flow) == IF flow = "search" THEN "search_prompt" ELSE "select_movie"

\* the except YTSAPIError clause of a flow: print the error, then `continue`
\* in search_flow and `return` in browse_flow
OnApiError(flow, e) ==
    [at |-> IF flow = "search" THEN "search_prompt" ELSE "menu",
     exit_status |-> NotExited,
     line |-> "Error: " \o e.msg]

\* main_menu: the user selects an entry
ChooseSearch ==
    /\ cli_at = "menu"
    /\ GoOn("search_prompt", console, Locals("search", "", <<>>, 0, NoResult))
    /\ UNCHANGED <<clientVars, uiVars>>

ChooseBrowse ==
    /\ cli_at = "menu"
    /\ GoOn("browse_call", console, Locals("browse", "", <<>>, 0, NoResult))
    /\ UNCHANGED <<clientVars, uiVars>>

ChooseExit ==
    /\ cli_at = "menu"
    /\ Exit(0, "Goodbye!")
    /\ UNCHANGED <<clientVars, uiVars>>

\* search_flow: the query prompt; an empty query returns to main_menu
EnterQuery ==
    /\ cli_at = "search_prompt"
    /\ \E q \in Queries \cup {""} :
          IF q = ""
          THEN GoOn("menu", console, NoLocals)
          ELSE GoOn("search_call", console, Locals("search", q, <<>>, 0, NoResult))
    /\ UNCHANGED <<clientVars, uiVars>>

\* what a flow does once its client call gave r
AfterCall(flow, query, r) ==
    LET here == Locals(flow, query, <<>>, 0, r) IN
    IF r.kind = "return"
    THEN IF Len(r.movies) = 0
         THEN IF flow = "search"
              THEN GoOn("search_prompt", "No movies found for '" \o query \o "'.", here)
              ELSE GoOn("menu", "No movies found.", here)
         ELSE IF flow = "search" /\ Len(r.movies) = 1
         THEN GoOn("select_torrent", "Selected: " \o Str(r.movies[1]),
                   Locals(flow, query, r.movies, r.movies[1], r))
         ELSE GoOn("select_movie",
                   IF flow = "search"
                   THEN "Found " \o Str(Len(r.movies)) \o " movies for '" \o query \o "'"
                   ELSE "Latest Movies",
                   Locals(flow, query, r.movies, 0, r))
    ELSE IF r.kind \in ApiErrors
    THEN LET h == OnApiError(flow, r) IN
         /\ cli_at' = h.at
         /\ exit_status' = h.exit_status
         /\ console' = h.line
         /\ cli_locals' = here
    ELSE /\ Exit(1, "An unexpected error occurred: " \o r.msg)

\* search_flow: client.search_movies(query) returns or raises
SearchCall ==
    /\ cli_at = "search_call"
    /\ \E r \in CallResults : AfterCall("search", cli_locals.query, r)
    /\ UNCHANGED <<clientVars, uiVars>>

\* browse_flow: client.list_latest_movies(limit=20) returns or raises
BrowseCall ==
    /\ cli_at = "browse_call"
    /\ \E r \in CallResults : AfterCall("browse", "", r)
    /\ UNCHANGED <<clientVars, uiVars>>

\* select_movie_interactive: a movie, Back or Exit
SelectMovie ==
    /\ cli_at = "select_movie"
    /\ \/ \E i \in DOMAIN cli_locals.movies :
             GoOn("select_torrent", console,
                  [cli_locals EXCEPT !.movie = cli_locals.movies[i]])
       \/ IF cli_locals.flow = "search"
          THEN GoOn("search_prompt", console, cli_locals)
          ELSE GoOn("menu", console, cli_locals)
       \/ Exit(0, "Goodbye!")
    /\ UNCHANGED <<clientVars, uiVars>>

\* select_torrent_interactive: no torrents, a torrent, Back or Exit
SelectTorrent ==
    /\ cli_at = "select_torrent"
    /\ IF Len(TorrentsOf(cli_locals.movie)) = 0
       THEN GoOn(NextRound(cli_locals.flow),
                 "No torrents available for this movie.", cli_locals)
       ELSE \/ GoOn("download_method", console, cli_locals)
            \/ GoOn(NextRound(cli_locals.flow), console, cli_locals)
            \/ Exit(0, "Goodbye!")
    /\ UNCHANGED <<clientVars, uiVars>>

\* select_download_method: the magnet link is opened and the user tries
\* another method or not, or Back, or Exit
DownloadMethod ==
    /\ cli_at = "download_method"
    /\ \/ \E continue_choice \in BOOLEAN :
             GoOn(IF continue_choice THEN "download_method"
                  ELSE NextRound(cli_locals.flow),
                  "Opening magnet link in your default torrent application...",
                  cli_locals)
       \/ GoOn(NextRound(cli_locals.flow), console, cli_locals)
       \/ Exit(0, "Goodbye!")
    /\ UNCHANGED <<clientVars, uiVars>>

NextCli ==
    \/ ChooseSearch
    \/ ChooseBrowse
    \/ ChooseExit
    \/ EnterQuery
    \/ SearchCall
    \/ BrowseCall
    \/ SelectMovie
    \/ SelectTorrent
    \/ DownloadMethod

\* the interactive menu
SpecCli == InitUi /\ [][NextCli]_vars

(***************************************************************************)
(* Properties of the client.                                               *)
(***************************************************************************)
\* sub occurs in s
Contains(s, sub) ==
    \E i \in 1 .. (Len(s) - Len(sub) + 1) : SubSeq(s, i, i + Len(sub) - 1) = sub

Done(c) == pc[c] = "done"
\* the call of c issued its GET
Requested(c) == call[c].op \in CatalogOps /\ Len(sent[c]) > 0
\* the call of c was answered by the transport
Answered(c) == call[c].op \in CatalogOps /\ pc[c] = "done" /\ reply[c] # NoReply
IsError(o) == o.kind \notin {"none", "return"}

\* the arguments of call k other than p pass validation: k reaches its
\* request when p is given the valid value good
OthersValid(k, p, good) == Prepare(k.op, [k.args EXCEPT ![p] = good]).ok

\* the query mapping of the GET that the call of c issued
ParamsOf(c) == sent[c][1].params
FailedWith(c, e) == Done(c) /\ outcome[c].kind = e /\ sent[c] = <<>>

\* C1: a call that fails with ParameterError has issued no HTTP request.
C1_NoRequestOnParameterError ==
    \A c \in Callers :
        outcome[c].kind = "YTSParameterError" => sent[c] = <<>>

\* a ParameterError found late in the operation: movie_details validates
\* movie_id while it builds the query mapping
C1_Witness ==
    \E c \in Callers :
        /\ Done(c) /\ outcome[c].kind = "YTSParameterError"
        /\ call[c].op = "movie_details"
        /\ call[c].args.movie_id = PyInt(0)
        /\ call[c].args.with_images = PyBool(TRUE)
        /\ sent[c] = <<>>

IsTransportException(r) == r.kind = "exception"
\* the status code is not a 2xx one
Non2xx(r) == r.kind = "response" /\ r.status_code \notin 200 .. 299
\* the status code is a 4xx or 5xx one
ErrorStatus(r) == r.kind = "response" /\ r.status_code \in 400 .. 599

\* C2 as stated: a connection error, a timeout or any non-2xx status makes
\* the call fail with RequestError.
C2_Non2xxIsRequestError ==
    \A c \in Callers :
        Answered(c) /\ (IsTransportException(reply[c]) \/ Non2xx(reply[c]))
            => outcome[c].kind = "YTSRequestError"

\* C2 amended: a connection error, a timeout or a 4xx/5xx status makes the
\* call fail with RequestError, whatever the body holds; the body is then
\* neither decoded nor unwrapped, so no ResponseError and no data come out.
\* Any other status outside 2xx has its body decoded and unwrapped.
C2_TransportFailureIsRequestError ==
    /\ \A c \in Callers :
        Answered(c) /\ (IsTransportException(reply[c]) \/ ErrorStatus(reply[c]))
            => /\ outcome[c].kind = "YTSRequestError"
               /\ Contains(outcome[c].msg, "Request failed: ")
    /\ \A c \in Callers :
        Answered(c) /\ Non2xx(reply[c]) /\ ~ErrorStatus(reply[c])
            => outcome[c] = (IF reply[c].body.json_ok
                             THEN validate_response(reply[c].body.json)
                             ELSE Error("YTSResponseError",
                                        "Failed to parse JSON response"))

\* a 500 whose body is an "ok" envelope with data
C2_Witness ==
    \E c \in Callers :
        /\ Answered(c)
        /\ reply[c] = HttpResponse(500,
               JsonBody(Envelope(JStr("ok"), Absent, JObject(EmptyDict))))
        /\ outcome[c].kind = "YTSRequestError"

\* the transport succeeded with a JSON object
GotEnvelope(c) ==
    /\ Answered(c)
    /\ reply[c].kind = "response"
    /\ ~raise_for_status(reply[c].status_code)
    /\ reply[c].body.json_ok
    /\ reply[c].body.json.j = "object"

EnvelopeOf(c) == reply[c].body.json.m

\* C3: an envelope whose status is not "ok" (a missing status included)
\* makes the call fail with ResponseError; the message contains the
\* envelope's status_message, or the fallback text when there is none.
C3_NotOkIsResponseError ==
    \A c \in Callers :
        GotEnvelope(c) /\ ("status" \notin DOMAIN EnvelopeOf(c)
                            \/ EnvelopeOf(c)["status"] # JStr("ok"))
            => /\ outcome[c].kind = "YTSResponseError"
               /\ "status_message" \notin DOMAIN EnvelopeOf(c)
                    => Contains(outcome[c].msg, "Unknown API error")
               /\ ("status_message" \in DOMAIN EnvelopeOf(c)
                     /\ EnvelopeOf(c)["status_message"].j = "str")
                    => Contains(outcome[c].msg, EnvelopeOf(c)["status_message"].s)

\* an envelope without status, with a message and with data
C3_Witness ==
    \E c \in Callers :
        /\ GotEnvelope(c)
        /\ DOMAIN EnvelopeOf(c) = {"status_message", "data"}
        /\ EnvelopeOf(c)["status_message"] = JStr("Movie not found")
        /\ outcome[c] = Error("YTSResponseError", "API error: Movie not found")

\* C4: a call ends with a returned value, ParameterError, RequestError or
\* ResponseError, and with nothing else.
C4_OnlyDeclaredOutcomes ==
    \A c \in Callers :
        Done(c) => outcome[c].kind \in {"return", "YTSParameterError",
                                        "YTSRequestError", "YTSResponseError"}

\* C5: list_movies with an integer limit below 1 or above 50 fails with
\* ParameterError; with 1 <= limit <= 50 and the other arguments valid the
\* GET carries limit as that integer.
C5_LimitRange ==
    \A c \in Callers :
        (call[c].op = "list_movies" /\ call[c].args.limit.t = "int") =>
            LET n == call[c].args.limit.n IN
            /\ (n < 1 \/ n > 50) => FailedWith(c, "YTSParameterError")
            /\ (1 <= n /\ n <= 50 /\ OthersValid(call[c], "limit", PyInt(20)))
                  => /\ Len(sent[c]) = 1
                     /\ ParamsOf(c)["limit"] = PyInt(n)

\* limit = 50, the upper end of the range, is sent
C5_Witness ==
    \E c \in Callers :
        /\ call[c].op = "list_movies"
        /\ call[c].args.limit = PyInt(50)
        /\ Requested(c)
        /\ ParamsOf(c)["limit"] = PyInt(50)

QualityValues == {"480p", "720p", "1080p", "1080p.x265", "2160p", "3D"}

\* C6: list_movies with a string quality outside the six values fails and
\* sends nothing, with ParameterError when the other arguments are valid;
\* with one of the six values and the other arguments valid the GET carries
\* quality with exactly that value.
C6_QualityEnum ==
    \A c \in Callers :
        (call[c].op = "list_movies" /\ call[c].args.quality.t = "str") =>
            LET q == call[c].args.quality.s
                valid == OthersValid(call[c], "quality", None)
            IN
            /\ q \notin QualityValues
                  => /\ Done(c) /\ IsError(outcome[c]) /\ sent[c] = <<>>
                     /\ valid => outcome[c].kind = "YTSParameterError"
            /\ (q \in QualityValues /\ valid)
                  => /\ Len(sent[c]) = 1
                     /\ "quality" \in DOMAIN ParamsOf(c)
                     /\ ParamsOf(c)["quality"] = PyStr(q)

\* quality = "1080p.x265" is sent as it is
C6_Witness ==
    \E c \in Callers :
        /\ call[c].op = "list_movies"
        /\ call[c].args.quality = PyStr("1080p.x265")
        /\ Requested(c)
        /\ ParamsOf(c)["quality"] = PyStr("1080p.x265")

\* C7: movie_details without movie_id and without imdb_id fails with
\* ParameterError and sends nothing, whatever with_images and with_cast are.
C7_MovieDetailsNeedsAnId ==
    \A c \in Callers :
        (/\ call[c].op = "movie_details"
         /\ IsNone(call[c].args.movie_id)
         /\ IsNone(call[c].args.imdb_id))
            => /\ FailedWith(c, "YTSParameterError")
               /\ outcome[c].msg = "Either 'movie_id' or 'imdb_id' is required"

\* no id, with_images not a boolean and with_cast true
C7_Witness ==
    \E c \in Callers :
        /\ call[c].op = "movie_details"
        /\ IsNone(call[c].args.movie_id) /\ IsNone(call[c].args.imdb_id)
        /\ call[c].args.with_images = PyStr("true")
        /\ call[c].args.with_cast = PyBool(TRUE)
        /\ FailedWith(c, "YTSParameterError")

\* C8: movie_details with movie_id the integer n >= 1, and with movie_id the
\* decimal string of n, send movie_id as the integer n; an integer movie_id
\* below 1 fails with ParameterError.
C8_MovieIdCoercion ==
    \A c \in Callers :
        call[c].op = "movie_details" =>
            LET m == call[c].args.movie_id
                valid == OthersValid(call[c], "movie_id", PyInt(1))
            IN
            /\ (m.t = "int" /\ m.n >= 1 /\ valid)
                  => Len(sent[c]) = 1 /\ ParamsOf(c)["movie_id"] = PyInt(m.n)
            /\ \A n \in 1 .. (MaxSmallInt + 10) :
                  (m = PyStr(Str(n)) /\ valid)
                      => Len(sent[c]) = 1 /\ ParamsOf(c)["movie_id"] = PyInt(n)
            /\ (m.t = "int" /\ m.n < 1) => FailedWith(c, "YTSParameterError")

\* the decimal string of a two-digit movie_id is sent as the integer
C8_Witness ==
    \E c \in Callers :
        /\ call[c].op = "movie_details"
        /\ call[c].args.movie_id = PyStr(Str(MaxSmallInt + 10))
        /\ Len(Str(MaxSmallInt + 10)) = 2
        /\ Requested(c)
        /\ ParamsOf(c)["movie_id"] = PyInt(MaxSmallInt + 10)

\* C9 as stated: a parameter that the caller left at its default is not a
\* key of the query mapping.
C9_OnlyNonDefaultSent ==
    \A c \in Callers :
        Requested(c) =>
            \A p \in DOMAIN call[c].args :
                call[c].args[p] = Defaults(call[c].op)[p]
                    => p \notin DOMAIN ParamsOf(c)

ListOps == {"list_movies", "search_movies", "list_latest_movies"}
AlwaysSent == {"limit", "page", "minimum_rating", "sort_by", "order_by"}

\* C9 amended: list_movies, and search_movies and list_latest_movies through
\* it, always put limit, page, minimum_rating, sort_by and order_by in the
\* query mapping, with the default value when the caller left the default;
\* every other parameter left at its default is not a key of the mapping,
\* and the mapping has no other keys.
C9_DefaultsSentOptionalsLeftOut ==
    \A c \in Callers :
        Requested(c) =>
            LET a == call[c].args
                d == Defaults(call[c].op)
                always == IF call[c].op \in ListOps THEN AlwaysSent ELSE {}
            IN
            /\ always \subseteq DOMAIN ParamsOf(c)
            /\ \A p \in always :
                  ParamsOf(c)[p] = (IF p \in DOMAIN a THEN a[p] ELSE ListMoviesDefaults[p])
                    \/ (p \in DOMAIN a /\ a[p] # d[p])
            /\ \A p \in (DOMAIN a) \ always : a[p] = d[p] => p \notin DOMAIN ParamsOf(c)
            /\ DOMAIN ParamsOf(c) \subseteq (DOMAIN a) \cup always

\* list_movies() with every argument left at its default
C9_Witness ==
    \E c \in Callers :
        /\ call[c] = [op |-> "list_movies", args |-> ListMoviesDefaults]
        /\ Requested(c)
        /\ ParamsOf(c) = [limit |-> PyInt(20), page |-> PyInt(1),
                          minimum_rating |-> PyInt(0),
                          sort_by |-> PyStr("date_added"),
                          order_by |-> PyStr("desc")]

Flags == {"with_rt_ratings", "with_images", "with_cast"}

\* C10: a boolean flag is a key of the query mapping exactly when the caller
\* passed true, and its value is then the string "true"; no GET carries
\* "false" or a raw boolean for a flag.
C10_FlagsOnlyTrue ==
    \A c \in Callers :
        Requested(c) =>
            \A f \in Flags :
                /\ f \in DOMAIN ParamsOf(c)
                      <=> (f \in DOMAIN call[c].args /\ call[c].args[f] = PyBool(TRUE))
                /\ f \in DOMAIN ParamsOf(c) => ParamsOf(c)[f] = PyStr("true")

\* movie_details with with_images true and with_cast false
C10_Witness ==
    \E c \in Callers :
        /\ call[c].op = "movie_details"
        /\ call[c].args.with_images = PyBool(TRUE)
        /\ call[c].args.with_cast = PyBool(FALSE)
        /\ Requested(c)
        /\ ParamsOf(c)["with_images"] = PyStr("true")
        /\ "with_cast" \notin DOMAIN ParamsOf(c)

\* the URL of the GET that the call of c issued
UrlOf(c) == sent[c][1].url

\* C11: search_movies with query_term None fails with ParameterError before
\* any request; with a query_term it sends to list_movies.json the request
\* of list_movies with that query_term, limit and page.
C11_SearchRequiresQueryTerm ==
    \A c \in Callers :
        call[c].op = "search_movies" =>
            LET a == call[c].args IN
            /\ IsNone(a.query_term) => FailedWith(c, "YTSParameterError")
            /\ (~IsNone(a.query_term) /\ Requested(c))
                  => /\ UrlOf(c) = client.base_url \o "list_movies.json"
                     /\ ParamsOf(c)["limit"] = PyInt(PyIntOf(a.limit).n)
                     /\ ParamsOf(c)["page"] = PyInt(PyIntOf(a.page).n)
                     /\ Truthy(a.query_term) => ParamsOf(c)["query_term"] = a.query_term

\* C12: list_latest_movies with valid limit and page sends to
\* list_movies.json the request of list_movies with sort_by = date_added and
\* order_by = desc, and with an invalid limit or page fails as list_movies
\* does.
C12_LatestIsListMoviesByDate ==
    \A c \in Callers :
        call[c].op = "list_latest_movies" =>
            LET a == call[c].args
                same == Prepare("list_movies",
                                [ListMoviesDefaults EXCEPT !.limit = a.limit,
                                                           !.page = a.page])
            IN
            /\ same.ok
                  => /\ Len(sent[c]) = 1
                     /\ UrlOf(c) = client.base_url \o "list_movies.json"
                     /\ ParamsOf(c) = same.params
                     /\ ParamsOf(c)["sort_by"] = PyStr("date_added")
                     /\ ParamsOf(c)["order_by"] = PyStr("desc")
                     /\ DOMAIN ParamsOf(c) = AlwaysSent
            /\ ~same.ok
                  => /\ Done(c) /\ sent[c] = <<>>
                     /\ outcome[c] = Error(same.exc, same.msg)

\* list_latest_movies(limit = 2, page = 1000)
C12_Witness ==
    \E c \in Callers :
        /\ call[c].op = "list_latest_movies"
        /\ call[c].args = [limit |-> PyInt(2), page |-> PyInt(1000)]
        /\ Requested(c)
        /\ ParamsOf(c) = [limit |-> PyInt(2), page |-> PyInt(1000),
                          minimum_rating |-> PyInt(0),
                          sort_by |-> PyStr("date_added"),
                          order_by |-> PyStr("desc")]

\* C13: movie_suggestions and movie_parental_guides fail with ParameterError
\* when movie_id is None, below 1 or not coercible to an integer; otherwise
\* the GET goes to the operation's endpoint with exactly {movie_id: integer}.
C13_MovieIdOnly ==
    \A c \in Callers :
        call[c].op \in {"movie_suggestions", "movie_parental_guides"} =>
            LET m == call[c].args.movie_id
                bad == IsNone(m) \/ ~PyIntOf(m).ok \/ PyIntOf(m).n < 1
            IN
            /\ bad => FailedWith(c, "YTSParameterError")
            /\ ~bad => /\ Len(sent[c]) = 1
                       /\ UrlOf(c) = client.base_url \o call[c].op \o ".json"
                       /\ ParamsOf(c) = [movie_id |-> PyInt(PyIntOf(m).n)]

\* the call returned normally on an "ok" envelope
ReturnedOk(c) == GotEnvelope(c) /\ outcome[c].kind = "return"

\* C14: a normal return gives a mapping, never null; the empty mapping when
\* the envelope has no data key or a null data.
C14_ReturnIsMapping ==
    \A c \in Callers :
        ReturnedOk(c) =>
            /\ outcome[c].value.j = "object"
            /\ ("data" \notin DOMAIN EnvelopeOf(c) \/ EnvelopeOf(c)["data"] = JNull)
                  => outcome[c].value = JObject(EmptyDict)

\* C15: on an "ok" envelope whose data is a mapping d the call returns d,
\* with the same keys and values.
C15_DataVerbatim ==
    \A c \in Callers :
        (/\ GotEnvelope(c)
         /\ "status" \in DOMAIN EnvelopeOf(c)
         /\ EnvelopeOf(c)["status"] = JStr("ok")
         /\ "data" \in DOMAIN EnvelopeOf(c)
         /\ EnvelopeOf(c)["data"].j = "object")
            => outcome[c] = Return(EnvelopeOf(c)["data"])

\* a data mapping of two keys comes back as it was sent
C15_Witness ==
    \E c \in Callers :
        /\ ReturnedOk(c)
        /\ "data" \in DOMAIN EnvelopeOf(c)
        /\ EnvelopeOf(c)["data"] = JObject([movie_count |-> JNum(1), limit |-> JNum(20)])
        /\ outcome[c].value = JObject([movie_count |-> JNum(1), limit |-> JNum(20)])

(***************************************************************************)
(* C16 - C20                                                               *)
(***************************************************************************)
Downloading(c) == call[c].op = "download_torrent_file"
BuiltMagnet(c) == call[c].op = "construct_magnet_url" /\ pc[c] = "done"
MagnetOf(c) == outcome[c].value.s

\* the number of places where sub occurs in s
Occurrences(s, sub) ==
    Cardinality({i \in 1 .. Len(s) - Len(sub) + 1 :
                    SubSeq(s, i, i + Len(sub) - 1) = sub})

StartsWith(s, prefix) ==
    Len(s) >= Len(prefix) /\ SubSeq(s, 1, Len(prefix)) = prefix

\* C16: no operation retries: a call issues at most one GET, exactly one
\* once its validation passed (a download validates nothing), none when it
\* raised ParameterError, and a failure is reported without a second GET.
C16_AtMostOneGet ==
    \A c \in Callers :
        /\ Len(sent[c]) <= 1
        /\ call[c].op \in CatalogOps =>
              /\ Prepare(call[c].op, call[c].args).ok => Len(sent[c]) = 1
              /\ ~Prepare(call[c].op, call[c].args).ok => Len(sent[c]) = 0
        /\ Downloading(c) => Len(sent[c]) = 1
        /\ (Done(c) /\ outcome[c].kind = "YTSRequestError") => Len(sent[c]) = 1

C16_Witness ==
    /\ Done("c1")
    /\ call["c1"].op = "list_movies"
    /\ reply["c1"] = TransportException("Timeout")
    /\ outcome["c1"].kind = "YTSRequestError"
    /\ Len(sent["c1"]) = 1

\* C17: a call made again with the same arguments issues the same GET as
\* the call before it, and on the same transport result has the same
\* outcome, whether the earlier call succeeded or failed.
C17_SameCallSameResult ==
    \A c \in Callers :
        (prev[c] # NoPrev /\ prev[c].call = call[c]) =>
            /\ pc[c] \in {"waiting", "done"} => sent[c] = prev[c].sent
            /\ (Done(c) /\ reply[c] = prev[c].reply) => outcome[c] = prev[c].outcome

C17_Witness ==
    /\ Done("c1")
    /\ prev["c1"] # NoPrev
    /\ prev["c1"].call = call["c1"]
    /\ call["c1"].op = "movie_details"
    /\ Len(sent["c1"]) = 1
    /\ reply["c1"] = prev["c1"].reply
    /\ outcome["c1"] = prev["c1"].outcome
    /\ outcome["c1"].kind = "YTSResponseError"

\* C18: no step of any operation changes the client's base_url or timeout
\* or the default tracker list, and after construct_magnet_url the list
\* passed as trackers is as the caller passed it.
C18_ConfigurationUnchanged ==
    [][/\ client' = client
       /\ DEFAULT_TRACKERS' = DEFAULT_TRACKERS
       /\ \A c \in Callers :
             call'[c].op = "construct_magnet_url" =>
                 trackers_arg'[c] = call'[c].args.trackers]_vars

C18_Witness ==
    /\ BuiltMagnet("c1")
    /\ call["c1"].args.trackers = PySeq(<<"http://x.y/a b?c=d", "udp://t.example:80/announce">>)
    /\ trackers_arg["c1"] = call["c1"].args.trackers
    /\ DEFAULT_TRACKERS = DefaultTrackers
    /\ client = DefaultClient

\* C19: with two callers on one client, each call issues the GET and has
\* the outcome it has alone: built from its own arguments and the client's
\* configuration, decided by its own transport result.
C19_CallsDoNotInterfere ==
    \A c \in Callers :
        call[c].op \in CatalogOps =>
            LET r == Prepare(call[c].op, call[c].args) IN
            /\ r.ok => sent[c] = <<[url |-> DefaultClient.base_url \o r.endpoint,
                                    params |-> r.params,
                                    timeout |-> DefaultClient.timeout]>>
            /\ ~r.ok => sent[c] = <<>> /\ outcome[c] = Error(r.exc, r.msg)
            /\ (r.ok /\ pc[c] = "waiting") => outcome[c] = NoOutcome
            /\ (r.ok /\ pc[c] = "done") => outcome[c] = make_request(reply[c])

C19_Witness ==
    /\ pc["c1"] = "done"
    /\ pc["c2"] = "waiting"
    /\ call["c1"].op = "list_movies"
    /\ call["c2"].op = "movie_details"
    /\ outcome["c1"].kind = "return"
    /\ sent["c1"][1].params # sent["c2"][1].params

\* C20: the magnet URL is "magnet:?xt=urn:btih:" + hash + "&dn=" + the
\* percent-encoded title, then one "&tr=" + percent-encoded tracker per
\* tracker in order: none for an empty list, the eight defaults when the
\* list is left out; the title "My Movie: Part 2" gives
\* dn=My%20Movie%3A%20Part%202.
C20_MagnetFormat ==
    \A c \in Callers :
        BuiltMagnet(c) =>
            LET a == call[c].args
                head == "magnet:?xt=urn:btih:" \o a.hash_value \o "&dn=" \o quote(a.title)
                used == IF IsNone(a.trackers) THEN DefaultTrackers ELSE a.trackers.items
            IN  /\ outcome[c].kind = "return"
                /\ StartsWith(MagnetOf(c), head)
                /\ Occurrences(MagnetOf(c), "&tr=") = Len(used)
                /\ MagnetOf(c) = AddTrackers(head, used)
                /\ IsNone(a.trackers) => Len(used) = 8
                /\ (~IsNone(a.trackers) /\ Len(a.trackers.items) = 0) => MagnetOf(c) = head
                /\ (a.hash_value = "ABC123" /\ a.title = "My Movie: Part 2") =>
                      StartsWith(MagnetOf(c),
                          "magnet:?xt=urn:btih:ABC123&dn=My%20Movie%3A%20Part%202")
                /\ a.trackers = PySeq(<<"http://x.y/a b?c=d">>) =>
                      MagnetOf(c) = head \o "&tr=http%3A//x.y/a%20b%3Fc%3Dd"

C20_Witness ==
    /\ BuiltMagnet("c1")
    /\ call["c1"].args.title = "My Movie: Part 2"
    /\ call["c1"].args.trackers = PySeq(<<>>)
    /\ MagnetOf("c1") = "magnet:?xt=urn:btih:ABC123&dn=My%20Movie%3A%20Part%202"

(***************************************************************************)
(* C21 - C30                                                               *)
(***************************************************************************)
Downloaded(c) == Downloading(c) /\ pc[c] = "done"
NamesDownloadPhase(o) ==
    /\ o.kind = "YTSRequestError"
    /\ Contains(o.msg, "download") /\ ~Contains(o.msg, "save")
NamesSavePhase(o) ==
    /\ o.kind = "YTSRequestError"
    /\ Contains(o.msg, "save") /\ ~Contains(o.msg, "download")

C22_DownloadErrorLeavesDestination ==
    \A c \in Callers :
        (Downloaded(c) /\ NamesDownloadPhase(outcome[c]))
            => dest[c].now = dest[c].before

\* the data an error carries besides its kind
ErrorData(o) == DOMAIN o \ {"kind"}

\* C23: a ParameterError carries the name of the offending parameter as
\* data of its own, apart from the message text.
C23_ErrorCarriesParameterName ==
    \A c \in Callers :
        (Done(c) /\ call[c].op \in CatalogOps /\ outcome[c].kind = "YTSParameterError")
            => \E field \in ErrorData(outcome[c]) \ {"msg"} :
                  outcome[c][field] \in DOMAIN call[c].args

\* the order in which op validates its arguments
ValidationOrder(op) ==
    IF op = "list_movies"
    THEN <<"limit", "page", "minimum_rating", "quality", "sort_by", "order_by",
           "with_rt_ratings">>
    ELSE <<"with_images", "with_cast", "movie_id">>

\* arguments of op that pass validation
ValidArgs(op) ==
    IF op = "list_movies" THEN ListMoviesDefaults
    ELSE [MovieDetailsDefaults EXCEPT !.imdb_id = PyStr("tt0133093")]

\* what op does when argument p of a is the only one that may be invalid
Alone(op, a, p) == Prepare(op, [ValidArgs(op) EXCEPT ![p] = a[p]])

NoIdGiven(k) ==
    k.op = "movie_details" /\ IsNone(k.args.movie_id) /\ IsNone(k.args.imdb_id)

C27_ValidateIntegerTotal ==
    \A c \in Callers :
        call[c].op = "list_movies" =>
            LET v == call[c].args.limit
                r == validate_integer(v, "limit", PyInt(1), PyInt(50))
            IN  /\ IsNone(v) => r = Returns(None)
                /\ ~IsNone(v) =>
                      \/ r.ok /\ r.val.t = "int" /\ r.val.n \in 1 .. 50
                      \/ ~r.ok /\ r.exc = "YTSParameterError"

\* the boolean parameters of the operations that have some
BooleanParams(op) ==
    IF op = "list_movies" THEN {"with_rt_ratings"}
    ELSE IF op = "movie_details" THEN {"with_images", "with_cast"}
    ELSE {}

\* C28: validate_boolean returns None for None and a bool unchanged, and
\* fails with ParameterError for any other value, 0, 1 and "true" included;
\* a call given such a value for a flag fails with ParameterError and sends
\* no request.
C28_StrictBoolean ==
    \A c \in Callers :
        \A p \in BooleanParams(call[c].op) :
            LET v == call[c].args[p]
                r == validate_boolean(v, p)
            IN  /\ IsNone(v) => r = Returns(None)
                /\ v.t = "bool" => r = Returns(v)
                /\ (~IsNone(v) /\ v.t # "bool") =>
                      /\ r = Raises("YTSParameterError",
                                    "Parameter '" \o p \o "' must be a boolean")
                      /\ sent[c] = <<>>
                      /\ Done(c)
                      /\ OthersValid(call[c], p, PyBool(FALSE))
                            => outcome[c] = Error(r.exc, r.msg)

C28_Witness ==
    /\ FailedWith("c1", "YTSParameterError")
    /\ call["c1"].op = "movie_details"
    /\ call["c1"].args.movie_id = PyInt(1)
    /\ call["c1"].args.with_images = PyStr("true")
    /\ outcome["c1"].msg = "Parameter 'with_images' must be a boolean"

\* C29: worker threads touch UI and application state only through
\* call_from_thread: nothing is read or written by a worker directly.
C29_WorkersHandOff == off_thread = {}

\* C30: whenever action_refresh or the load-error handler looks up
\* #latest_movies_label, exactly one such widget exists.
C30_OneLatestMoviesLabel ==
    lookups # NoLookup => lookups.matches = 1

\* C24: when the error screen of a failed load is dismissed, the screen
\* that becomes active is not the LoadingScreen.
C24_RetryAfterError ==
    [][(Top(screen_stack).name = "error" /\ screen_stack' = Pop(screen_stack))
          => Top(screen_stack').name # "loading"]_vars

\* C25: a YTSAPIError raised by the catalog call of search_flow or
\* browse_flow does not end the program: the error is printed, search_flow
\* is back at its query prompt and browse_flow at the main menu; the program
\* ends only when the user chose Exit.
C25_ApiErrorKeepsMenu ==
    [][LET r == cli_locals'.result IN
       /\ (cli_at \in {"search_call", "browse_call"} /\ r.kind \in ApiErrors) =>
             /\ exit_status' = NotExited
             /\ console' = "Error: " \o r.msg
             /\ cli_at = "search_call" => cli_at' = "search_prompt"
             /\ cli_at = "browse_call" => cli_at' = "menu"
       /\ exit_status' # exit_status =>
             /\ exit_status' = 0
             /\ console' = "Goodbye!"
             /\ cli_at \notin {"search_call", "browse_call"}]_vars

====
